---- MODULE Spec2Model ----
(***************************************************************************)
(* A model of the leveled logger of vscode-ext-logger (src/src/logger.ts,  *)
(* src/src/log-level-utils.ts, src/src/types.ts).                          *)
(*                                                                         *)
(* Text is modelled as a sequence of one-character strings, so that        *)
(* lower-casing, trimming, joining and JSON rendering are computed and not *)
(* assumed.  JavaScript values are tagged records; objects and arrays live *)
(* in a small heap so that an object can refer to itself.                  *)
(***************************************************************************)
EXTENDS Integers, Sequences, FiniteSets, TLC

\* ------------------------------------------------------------------------
\* Bounds of the model
\* ------------------------------------------------------------------------
MaxArgs == 1          \* auxiliary values per log call
MaxWatchers == 2      \* configuration listeners the host registers
MaxDisposals == 2     \* times one host output channel is disposed

\* ------------------------------------------------------------------------
\* Text
\* ------------------------------------------------------------------------
LowerOf(c) ==
  CASE c = "A" -> "a" [] c = "B" -> "b" [] c = "D" -> "d" [] c = "E" -> "e"
    [] c = "C" -> "c" [] c = "F" -> "f" [] c = "G" -> "g" [] c = "I" -> "i" [] c = "N" -> "n"
    [] c = "O" -> "o" [] c = "R" -> "r" [] c = "T" -> "t" [] c = "U" -> "u"
    [] c = "W" -> "w" [] OTHER -> c

\* String.prototype.toLowerCase
toLowerCase(s) == [i \in 1..Len(s) |-> LowerOf(s[i])]

WhiteSpace == {" ", "\t", "\n"}

RECURSIVE trimStart(_)
trimStart(s) ==
  IF s # <<>> /\ Head(s) \in WhiteSpace THEN trimStart(Tail(s)) ELSE s

RECURSIVE trimEnd(_)
trimEnd(s) ==
  IF s # <<>> /\ s[Len(s)] \in WhiteSpace
    THEN trimEnd(SubSeq(s, 1, Len(s) - 1)) ELSE s

\* String.prototype.trim
trim(s) == trimEnd(trimStart(s))

\* Array.prototype.join over an array of texts
RECURSIVE join(_, _)
join(parts, sep) ==
  IF parts = <<>> THEN <<>>
  ELSE IF Len(parts) = 1 THEN parts[1]
  ELSE parts[1] \o sep \o join(Tail(parts), sep)

\* ------------------------------------------------------------------------
\* LogLevel (types.ts)
\* ------------------------------------------------------------------------
Off == 0
Error == 1
Warn == 2
Info == 3
Debug == 4
Trace == 5
LogLevel == {Off, Error, Warn, Info, Debug, Trace}
Severities == {Error, Warn, Info, Debug, Trace}

\* ------------------------------------------------------------------------
\* LogLevelUtils (log-level-utils.ts)
\* ------------------------------------------------------------------------
\* a parser that lowercases the text but does not trim it
fromStringNoTrim(text) ==
  LET t == toLowerCase(text) IN
  CASE t = <<"o", "f", "f">> -> Off
    [] t = <<"e", "r", "r", "o", "r">> -> Error
    [] t = <<"w", "a", "r", "n">> -> Warn
    [] t = <<"w", "a", "r", "n", "i", "n", "g">> -> Warn
    [] t = <<"i", "n", "f", "o">> -> Info
    [] t = <<"d", "e", "b", "u", "g">> -> Debug
    [] t = <<"t", "r", "a", "c", "e">> -> Trace
    [] OTHER -> Info

fromString(text) ==
  LET t == trim(toLowerCase(text)) IN
  CASE t = <<"o", "f", "f">> -> Off
    [] t = <<"e", "r", "r", "o", "r">> -> Error
    [] t = <<"w", "a", "r", "n">> -> Warn
    [] t = <<"w", "a", "r", "n", "i", "n", "g">> -> Warn
    [] t = <<"i", "n", "f", "o">> -> Info
    [] t = <<"d", "e", "b", "u", "g">> -> Debug
    [] t = <<"t", "r", "a", "c", "e">> -> Trace
    [] OTHER -> Info

\* a formatter that prints Trace under a name the parser does not know
toStringVerbose(lv) ==
  CASE lv = Off -> <<"o", "f", "f">>
    [] lv = Error -> <<"e", "r", "r", "o", "r">>
    [] lv = Warn -> <<"w", "a", "r", "n">>
    [] lv = Info -> <<"i", "n", "f", "o">>
    [] lv = Debug -> <<"d", "e", "b", "u", "g">>
    [] lv = Trace -> <<"v", "e", "r", "b", "o", "s", "e">>
    [] OTHER -> <<"i", "n", "f", "o">>

toString(lv) ==
  CASE lv = Off -> <<"o", "f", "f">>
    [] lv = Error -> <<"e", "r", "r", "o", "r">>
    [] lv = Warn -> <<"w", "a", "r", "n">>
    [] lv = Info -> <<"i", "n", "f", "o">>
    [] lv = Debug -> <<"d", "e", "b", "u", "g">>
    [] lv = Trace -> <<"t", "r", "a", "c", "e">>
    [] OTHER -> <<"i", "n", "f", "o">>

\* the case labels of the switch in fromString (log-level-utils.ts 18-31)
switchLabels ==
  { <<"o", "f", "f">>, <<"e", "r", "r", "o", "r">>, <<"w", "a", "r", "n">>,
    <<"w", "a", "r", "n", "i", "n", "g">>, <<"i", "n", "f", "o">>,
    <<"d", "e", "b", "u", "g">>, <<"t", "r", "a", "c", "e">> }

\* a list that leaves the alias "warning" out
getValidLevelsNoAlias ==
  << <<"o", "f", "f">>, <<"e", "r", "r", "o", "r">>, <<"w", "a", "r", "n">>,
     <<"i", "n", "f", "o">>, <<"d", "e", "b", "u", "g">>, <<"t", "r", "a", "c", "e">> >>

getValidLevels ==
  << <<"o", "f", "f">>, <<"e", "r", "r", "o", "r">>, <<"w", "a", "r", "n">>,
     <<"w", "a", "r", "n", "i", "n", "g">>, <<"i", "n", "f", "o">>,
     <<"d", "e", "b", "u", "g">>, <<"t", "r", "a", "c", "e">> >>

\* ------------------------------------------------------------------------
\* JavaScript values handed to a log call or stored in a host setting
\* ------------------------------------------------------------------------
Num(n) == [t |-> "number", n |-> n, s |-> <<>>]
Str(s) == [t |-> "string", n |-> 0, s |-> s]
Bool(b) == [t |-> "boolean", n |-> IF b THEN 1 ELSE 0, s |-> <<>>]
Undefined == [t |-> "undefined", n |-> 0, s |-> <<>>]
Null == [t |-> "null", n |-> 0, s |-> <<>>]
Ref(id) == [t |-> "ref", n |-> id, s |-> <<>>]

\* The objects a caller may pass: 1 is {a:1}, 2 is [1,"x"], 3 is an object
\* whose property self refers to itself, 4 is {k:{a:1},u:undefined}.
Heap ==
  << [kind |-> "object", fields |-> << [k |-> <<"a">>, v |-> Num(1)] >>],
     [kind |-> "array", fields |-> << [k |-> <<"0">>, v |-> Num(1)],
                                       [k |-> <<"1">>, v |-> Str(<<"x">>)] >>],
     [kind |-> "object", fields |-> << [k |-> <<"s", "e", "l", "f">>, v |-> Ref(3)] >>],
     [kind |-> "object", fields |-> << [k |-> <<"k">>, v |-> Ref(1)],
                                        [k |-> <<"u">>, v |-> Undefined] >>] >>

\* typeof arg === 'object'
typeofObject(v) == v.t \in {"ref", "null"}

DigitChar(d) ==
  CASE d = 0 -> "0" [] d = 1 -> "1" [] d = 2 -> "2" [] d = 3 -> "3"
    [] d = 4 -> "4" [] d = 5 -> "5" [] d = 6 -> "6" [] d = 7 -> "7"
    [] d = 8 -> "8" [] d = 9 -> "9"

\* decimal rendering of a natural number
RECURSIVE NatToText(_)
NatToText(n) ==
  IF n < 10 THEN <<DigitChar(n)>>
  ELSE NatToText(n \div 10) \o <<DigitChar(n % 10)>>

\* String(arg) for a value that is not an object
String(v) ==
  CASE v.t = "number" -> NatToText(v.n)
    [] v.t = "string" -> v.s
    [] v.t = "boolean" -> IF v.n = 1 THEN <<"t", "r", "u", "e">>
                                      ELSE <<"f", "a", "l", "s", "e">>
    [] v.t = "undefined" -> <<"u", "n", "d", "e", "f", "i", "n", "e", "d">>
    [] OTHER -> <<"n", "u", "l", "l">>

\* JSON string literal: quotes, with quote and backslash escaped
RECURSIVE Escape(_)
Escape(s) ==
  IF s = <<>> THEN <<>>
  ELSE (IF Head(s) \in {"\"", "\\"} THEN <<"\\", Head(s)>> ELSE <<Head(s)>>)
       \o Escape(Tail(s))

Quote(s) == <<"\"">> \o Escape(s) \o <<"\"">>

Thrown == [ok |-> FALSE, s |-> <<>>]
Returned(s) == [ok |-> TRUE, s |-> s]

\* JSON.stringify: renders v; stack holds the objects being rendered, and
\* meeting one of them again is the TypeError "circular structure".
RECURSIVE JSONstringify(_, _)
RECURSIVE JSONmembers(_, _, _)
JSONmembers(kind, fields, stack) ==
  IF fields = <<>> THEN Returned(<<>>)
  ELSE
    LET f == Head(fields)
        rest == JSONmembers(kind, Tail(fields), stack)
        skip == kind = "object" /\ f.v.t = "undefined"
        one == IF f.v.t = "undefined" THEN Returned(<<"n", "u", "l", "l">>)
               ELSE JSONstringify(f.v, stack)
        item == IF kind = "object" THEN Quote(f.k) \o <<":">> \o one.s ELSE one.s
    IN IF skip THEN rest
       ELSE IF ~one.ok \/ ~rest.ok THEN Thrown
       ELSE IF rest.s = <<>> THEN Returned(item)
       ELSE Returned(item \o <<",">> \o rest.s)

JSONstringify(v, stack) ==
  CASE v.t = "ref" ->
         IF v.n \in stack THEN Thrown
         ELSE LET o == Heap[v.n]
                  m == JSONmembers(o.kind, o.fields, stack \cup {v.n})
              IN IF ~m.ok THEN Thrown
                 ELSE IF o.kind = "object"
                   THEN Returned(<<"{">> \o m.s \o <<"}">>)
                   ELSE Returned(<<"[">> \o m.s \o <<"]">>)
    [] v.t = "string" -> Returned(Quote(v.s))
    [] OTHER -> Returned(String(v))

\* ------------------------------------------------------------------------
\* Inputs explored
\* ------------------------------------------------------------------------
TextExtension == <<"E", "x", "t", "e", "n", "s", "i", "o", "n">>
TextTest == <<"T", "e", "s", "t">>
TextInfo == <<"i", "n", "f", "o">>
TextLogLevel == <<"l", "o", "g", "L", "e", "v", "e", "l">>

\* level texts a caller or a setting may carry
TextDebugPadded == <<" ", "D", "e", "b", "u", "g", " ">>
TextERROR == <<"E", "R", "R", "O", "R">>
LevelTexts ==
  { <<"O", "F", "F">>, TextDebugPadded,
    <<"w", "a", "r", "n", "i", "n", "g">>, <<"v", "e", "r", "b", "o", "s", "e">> }

\* fallback texts handed to setLevelFromConfig and to enableConfigMonitoring
FallbackTexts == { TextInfo, TextERROR }
WatchFallbacks == { TextERROR }

\* the configuration section the extension reads, and the sections a change
\* event of the host may report
Sections == { <<"a", "p", "p">> }
EventSections == Sections \cup { <<"o", "t", "h", "e", "r">> }
Keys == { TextLogLevel }

\* what the host holds for a setting: nothing, a text, or a number
SettingValues == { Undefined, Num(3), Str(TextDebugPadded) }

Messages == { <<"M">> }
PlainMessages == { <<"x">>, <<"y">> }
ArgValues == { Ref(3) }

\* the sequences over S of length at most n
SeqsUpTo(S, n) == UNION { [1..k -> S] : k \in 0..n }

ArgLists == SeqsUpTo(ArgValues, MaxArgs)

\* LoggerOptions (types.ts): name, level, outputChannel, context
Options(n, l, o, c) == [name |-> n, level |-> l, outputChannel |-> o, context |-> c]
OptionSets ==
  { Options(Undefined, Undefined, Undefined, Undefined),
    Options(Str(TextTest), Str(<<"w", "a", "r", "n">>), Undefined, Undefined),
    Options(Str(<<>>), Num(Off), Bool(FALSE), Undefined),
    Options(Str(TextTest), Str(<<"v", "e", "r", "b", "o", "s", "e">>), Bool(TRUE), Ref(0)) }

\* ------------------------------------------------------------------------
\* State
\* ------------------------------------------------------------------------
VARIABLES
  vscodeAvailable,  \* require('vscode') succeeds in this process
  settings,         \* host configuration: [Sections \X Keys -> SettingValues]
  channels,         \* host output channels created so far
  listeners,        \* host configuration-change listeners registered so far
  subscriptions,    \* context.subscriptions
  reading,          \* the getLogContents calls suspended on host file I/O
  peer,             \* a second Logger instance: its level and its two handles
  constructed,      \* the constructor has run
  name,             \* Logger.name
  level,            \* Logger.level
  outputChannel,    \* Logger.outputChannel: 0 or an index into channels
  context,          \* Logger.context
  configWatcher,    \* Logger.configWatcher: 0 or an index into listeners
  configSection,    \* Logger.configSection
  configKey,        \* Logger.configKey
  defaultLevel,     \* Logger.defaultLevel
  last,             \* the call that ran last and how it ended
  hostCalls,        \* calls the last operation made on host output channels
  consoleLines      \* lines the last operation wrote with console.log

hostVars == <<vscodeAvailable, settings, channels, listeners, subscriptions, reading, peer>>
loggerVars == <<constructed, name, level, outputChannel, context, configWatcher,
                configSection, configKey, defaultLevel>>
vars == <<vscodeAvailable, settings, channels, listeners, subscriptions, reading, peer,
          constructed, name, level, outputChannel, context, configWatcher,
          configSection, configKey, defaultLevel, last, hostCalls, consoleLines>>

NoInput == [k |-> "none"]
NotReading == <<>>
NoPeer == [constructed |-> FALSE, level |-> Info, outputChannel |-> 0, configWatcher |-> 0]
Call(op, threw, fault, in) == [op |-> op, threw |-> threw, fault |-> fault, in |-> in]

Init ==
  /\ vscodeAvailable \in BOOLEAN
  /\ settings = [sk \in Sections \X Keys |-> Undefined]
  /\ channels = <<>>
  /\ listeners = <<>>
  /\ subscriptions = <<>>
  /\ reading = NotReading
  /\ peer = NoPeer
  /\ constructed = FALSE
  /\ name = <<>>
  /\ level = Info
  /\ outputChannel = 0
  /\ context = Undefined
  /\ configWatcher = 0
  /\ configSection = Undefined
  /\ configKey = Undefined
  /\ defaultLevel = Undefined
  /\ last = Call("none", FALSE, FALSE, NoInput)
  /\ hostCalls = <<>>
  /\ consoleLines = <<>>

\* ------------------------------------------------------------------------
\* Logger (logger.ts)
\* ------------------------------------------------------------------------
isVSCodeEnvironment == vscodeAvailable

\* a resolution with || in place of ??: the falsy rank Off becomes Info
initialLevelOr(opt) ==
  IF opt.t = "string" THEN fromString(opt.s)
  ELSE IF opt.t \in {"undefined", "null"} \/ opt.n = 0 THEN Info ELSE opt.n

\* the level the constructor resolves from options.level
initialLevel(opt) ==
  IF opt.t = "string" THEN fromString(opt.s)
  ELSE IF opt.t \in {"undefined", "null"} THEN Info ELSE opt.n

\* a constructor without the try/catch around the channel creation: the
\* exception of createOutputChannel leaves the constructor
constructorUncaught(options, createRaises) ==
  /\ ~constructed
  /\ constructed' = ~createRaises
  /\ name' = IF options.name.t = "string" /\ options.name.s # <<>>
               THEN options.name.s ELSE TextExtension
  /\ context' = options.context
  /\ level' = initialLevel(options.level)
  /\ LET useOutputChannel == IF options.outputChannel.t = "undefined" THEN TRUE
                             ELSE options.outputChannel.n = 1
         attempted == useOutputChannel /\ isVSCodeEnvironment
     IN /\ createRaises => attempted
        /\ IF attempted /\ ~createRaises
             THEN /\ channels' = Append(channels, [name |-> name', disposals |-> 0])
                  /\ outputChannel' = Len(channels) + 1
             ELSE UNCHANGED <<channels, outputChannel>>
        /\ last' = Call("constructor", createRaises, createRaises, options)
  /\ hostCalls' = <<>>
  /\ consoleLines' = <<>>
  /\ UNCHANGED <<vscodeAvailable, reading, peer, settings, listeners, subscriptions, configWatcher,
                 configSection, configKey, defaultLevel>>

\* new Logger(options); createRaises: vscode.window.createOutputChannel throws
constructor(options, createRaises) ==
  /\ ~constructed
  /\ constructed' = TRUE
  /\ name' = IF options.name.t = "string" /\ options.name.s # <<>>
               THEN options.name.s ELSE TextExtension
  /\ context' = options.context
  /\ level' = initialLevel(options.level)
  /\ LET useOutputChannel == IF options.outputChannel.t = "undefined" THEN TRUE
                             ELSE options.outputChannel.n = 1
         attempted == useOutputChannel /\ isVSCodeEnvironment
     IN /\ createRaises => attempted
        /\ IF attempted /\ ~createRaises
             THEN /\ channels' = Append(channels, [name |-> name', disposals |-> 0])
                  /\ outputChannel' = Len(channels) + 1
             ELSE UNCHANGED <<channels, outputChannel>>
        /\ last' = Call("constructor", FALSE, createRaises, options)
  /\ hostCalls' = <<>>
  /\ consoleLines' = <<>>
  /\ UNCHANGED <<vscodeAvailable, reading, peer, settings, listeners, subscriptions, configWatcher,
                 configSection, configKey, defaultLevel>>

\* a filter that also drops the calls at the current level itself
shouldLogStrict(current, sev) == current # Off /\ sev < current

shouldLog(current, sev) == current # Off /\ sev <= current

\* args.map(arg => typeof arg === 'object' ? JSON.stringify(arg) : String(arg))
RECURSIVE renderArgs(_)
renderArgs(args) ==
  IF args = <<>> THEN Returned(<<>>)
  ELSE LET one == IF typeofObject(Head(args)) THEN JSONstringify(Head(args), {})
                  ELSE Returned(String(Head(args)))
           rest == renderArgs(Tail(args))
       IN IF ~one.ok \/ ~rest.ok THEN Thrown
          ELSE Returned(<<one.s>> \o rest.s)

\* a template that glues the auxiliary text to the message without the space
fullMessageNoSpace(message, args) ==
  LET rendered == renderArgs(args)
      formattedArgs == IF Len(args) > 0 THEN join(rendered.s, <<" ">>) ELSE <<>>
  IN IF ~rendered.ok THEN Thrown
     ELSE IF formattedArgs # <<>> THEN Returned(message \o formattedArgs)
     ELSE Returned(message)

\* the text a log call builds from its message and auxiliary values
fullMessage(message, args) ==
  LET rendered == renderArgs(args)
      formattedArgs == IF Len(args) > 0 THEN join(rendered.s, <<" ">>) ELSE <<>>
  IN IF ~rendered.ok THEN Thrown
     ELSE IF formattedArgs # <<>> THEN Returned(message \o <<" ">> \o formattedArgs)
     ELSE Returned(message)

MethodOf(sev) ==
  CASE sev = Error -> "error" [] sev = Warn -> "warn" [] sev = Info -> "info"
    [] sev = Debug -> "debug" [] sev = Trace -> "trace"

\* a console line that leaves the "[name] " prefix out
consoleLineBare(n, text) == text

\* the argument of console.log: `[${this.name}] ${fullMessage}`
consoleLine(n, text) == <<"[">> \o n \o <<"]", " ">> \o text

\* Logger.log, reached through error/warn/info/debug/trace
log(sev, message, args) ==
  /\ constructed
  /\ LET text == fullMessage(message, args)
         in == [sev |-> sev, message |-> message, args |-> args]
     IN IF ~shouldLog(level, sev)
          THEN /\ last' = Call("log", FALSE, FALSE, in)
               /\ hostCalls' = <<>>
               /\ consoleLines' = <<>>
        ELSE IF ~text.ok
          THEN /\ last' = Call("log", TRUE, FALSE, in)
               /\ hostCalls' = <<>>
               /\ consoleLines' = <<>>
        ELSE IF outputChannel # 0
          THEN /\ last' = Call("log", FALSE, FALSE, in)
               /\ hostCalls' = << [channel |-> outputChannel, method |-> MethodOf(sev),
                                   text |-> text.s] >>
               /\ consoleLines' = <<>>
        ELSE /\ last' = Call("log", FALSE, FALSE, in)
             /\ hostCalls' = <<>>
             /\ consoleLines' = << consoleLine(name, text.s) >>
  /\ UNCHANGED hostVars
  /\ UNCHANGED loggerVars

\* a setter that returns without storing the level
setLevelIgnored(lv) ==
  /\ constructed
  /\ level' = level
  /\ last' = Call("setLevel", FALSE, FALSE, [lv |-> lv])
  /\ hostCalls' = <<>>
  /\ consoleLines' = <<>>
  /\ UNCHANGED hostVars
  /\ UNCHANGED <<constructed, name, outputChannel, context, configWatcher,
                 configSection, configKey, defaultLevel>>

setLevel(lv) ==
  /\ constructed
  /\ level' = lv
  /\ last' = Call("setLevel", FALSE, FALSE, [lv |-> lv])
  /\ hostCalls' = <<>>
  /\ consoleLines' = <<>>
  /\ UNCHANGED hostVars
  /\ UNCHANGED <<constructed, name, outputChannel, context, configWatcher,
                 configSection, configKey, defaultLevel>>

\* a setter that leaves the level undefined (-1) for a text outside the table
setLevelFromStringUnmapped(text) ==
  /\ constructed
  /\ level' = IF trim(toLowerCase(text)) \in { getValidLevels[i] : i \in 1..Len(getValidLevels) }
                 THEN fromString(text) ELSE -1
  /\ last' = Call("setLevelFromString", FALSE, FALSE, [text |-> text])
  /\ hostCalls' = <<>>
  /\ consoleLines' = <<>>
  /\ UNCHANGED hostVars
  /\ UNCHANGED <<constructed, name, outputChannel, context, configWatcher,
                 configSection, configKey, defaultLevel>>

setLevelFromString(text) ==
  /\ constructed
  /\ level' = fromString(text)
  /\ last' = Call("setLevelFromString", FALSE, FALSE, [text |-> text])
  /\ hostCalls' = <<>>
  /\ consoleLines' = <<>>
  /\ UNCHANGED hostVars
  /\ UNCHANGED <<constructed, name, outputChannel, context, configWatcher,
                 configSection, configKey, defaultLevel>>

\* config.get(key, defaultValue) of vscode.workspace.getConfiguration(section)
configGet(section, key, defaultValue) ==
  IF settings[<<section, key>>].t = "undefined" THEN Str(defaultValue)
  ELSE settings[<<section, key>>]

\* a catch block that swallows the failure without applying the default
levelFromConfigNoFallback(section, key, defaultValue, apiRaises) ==
  IF isVSCodeEnvironment
    THEN IF apiRaises THEN level
         ELSE LET logLevelSetting == configGet(section, key, defaultValue)
              IN IF logLevelSetting.t = "string" THEN fromString(logLevelSetting.s)
                 ELSE fromString(defaultValue)
    ELSE fromString(defaultValue)

\* the level setLevelFromConfig leaves; apiRaises: the host configuration call throws
levelFromConfig(section, key, defaultValue, apiRaises) ==
  IF isVSCodeEnvironment
    THEN IF apiRaises THEN fromString(defaultValue)
         ELSE LET logLevelSetting == configGet(section, key, defaultValue)
              IN IF logLevelSetting.t = "string" THEN fromString(logLevelSetting.s)
                 ELSE fromString(defaultValue)
    ELSE fromString(defaultValue)

setLevelFromConfig(section, key, defaultValue, apiRaises) ==
  /\ constructed
  /\ apiRaises => isVSCodeEnvironment
  /\ level' = levelFromConfig(section, key, defaultValue, apiRaises)
  /\ last' = Call("setLevelFromConfig", FALSE, apiRaises,
                  [section |-> section, key |-> key, defaultLevel |-> defaultValue])
  /\ hostCalls' = <<>>
  /\ consoleLines' = <<>>
  /\ UNCHANGED hostVars
  /\ UNCHANGED <<constructed, name, outputChannel, context, configWatcher,
                 configSection, configKey, defaultLevel>>

\* vscode.workspace.onDidChangeConfiguration(listener): the host keeps the
\* listener with the section, key and default its closure captured
registered(section, key, defaultValue) ==
  Append(listeners, [section |-> section, key |-> key, defaultLevel |-> defaultValue,
                     disposals |-> 0, owner |-> 1])

\* apiRaises: the configuration read throws; registerRaises: the registration throws
enableConfigMonitoring(section, key, defaultValue, apiRaises, registerRaises) ==
  /\ constructed
  /\ (apiRaises \/ registerRaises) => isVSCodeEnvironment
  /\ configSection' = Str(section)
  /\ configKey' = Str(key)
  /\ defaultLevel' = Str(defaultValue)
  /\ level' = levelFromConfig(section, key, defaultValue, apiRaises)
  /\ IF isVSCodeEnvironment /\ ~registerRaises
       THEN /\ Len(listeners) < MaxWatchers
            /\ listeners' = registered(section, key, defaultValue)
            /\ configWatcher' = Len(listeners) + 1
            /\ subscriptions' = IF context.t # "undefined"
                                  THEN Append(subscriptions, Len(listeners) + 1)
                                  ELSE subscriptions
       ELSE UNCHANGED <<listeners, configWatcher, subscriptions>>
  /\ last' = Call("enableConfigMonitoring", FALSE, apiRaises \/ registerRaises,
                  [section |-> section, key |-> key, defaultLevel |-> defaultValue])
  /\ hostCalls' = <<>>
  /\ consoleLines' = <<>>
  /\ UNCHANGED <<vscodeAvailable, reading, peer, settings, channels, constructed, name,
                 outputChannel, context>>

\* the host's dispose() of a registered listener
disposedListener(ls, w) == [ls EXCEPT ![w].disposals = @ + 1]

\* the listeners after disableConfigMonitoring has run
listenersAfterDisable ==
  IF configWatcher # 0 THEN disposedListener(listeners, configWatcher) ELSE listeners

\* disableConfigMonitoring without the delete of this.configWatcher
disableKeepsWatcher ==
  /\ constructed
  /\ listeners' = listenersAfterDisable
  /\ configWatcher' = configWatcher
  /\ configSection' = Undefined
  /\ configKey' = Undefined
  /\ defaultLevel' = Undefined
  /\ last' = Call("disableConfigMonitoring", FALSE, FALSE, [watcher |-> configWatcher])
  /\ hostCalls' = <<>>
  /\ consoleLines' = <<>>
  /\ UNCHANGED <<vscodeAvailable, reading, peer, settings, channels, subscriptions, constructed,
                 name, level, outputChannel, context>>

disableConfigMonitoring ==
  /\ constructed
  /\ listeners' = listenersAfterDisable
  /\ configWatcher' = 0
  /\ configSection' = Undefined
  /\ configKey' = Undefined
  /\ defaultLevel' = Undefined
  /\ last' = Call("disableConfigMonitoring", FALSE, FALSE, [watcher |-> configWatcher])
  /\ hostCalls' = <<>>
  /\ consoleLines' = <<>>
  /\ UNCHANGED <<vscodeAvailable, reading, peer, settings, channels, subscriptions, constructed,
                 name, level, outputChannel, context>>

show ==
  /\ constructed
  /\ hostCalls' = IF outputChannel # 0
                    THEN << [channel |-> outputChannel, method |-> "show", text |-> <<>>] >>
                    ELSE <<>>
  /\ last' = Call("show", FALSE, FALSE, NoInput)
  /\ consoleLines' = <<>>
  /\ UNCHANGED hostVars
  /\ UNCHANGED loggerVars

\* the channels after dispose() has run
channelsAfterDispose ==
  IF outputChannel # 0 THEN [channels EXCEPT ![outputChannel].disposals = @ + 1]
  ELSE channels

\* dispose() that disposes the watcher itself and keeps the handle
disposeKeepsWatcher ==
  /\ constructed
  /\ outputChannel # 0 => channels[outputChannel].disposals < MaxDisposals
  /\ listeners' = listenersAfterDisable
  /\ configWatcher' = configWatcher
  /\ configSection' = Undefined
  /\ configKey' = Undefined
  /\ defaultLevel' = Undefined
  /\ channels' = channelsAfterDispose
  /\ hostCalls' = IF outputChannel # 0
                    THEN << [channel |-> outputChannel, method |-> "dispose", text |-> <<>>] >>
                    ELSE <<>>
  /\ last' = Call("dispose", FALSE, FALSE,
                  [watcher |-> configWatcher, channel |-> outputChannel])
  /\ consoleLines' = <<>>
  /\ UNCHANGED <<vscodeAvailable, reading, peer, settings, subscriptions, constructed, name, level,
                 outputChannel, context>>

dispose ==
  /\ constructed
  /\ outputChannel # 0 => channels[outputChannel].disposals < MaxDisposals
  /\ listeners' = listenersAfterDisable
  /\ configWatcher' = 0
  /\ configSection' = Undefined
  /\ configKey' = Undefined
  /\ defaultLevel' = Undefined
  /\ channels' = channelsAfterDispose
  /\ hostCalls' = IF outputChannel # 0
                    THEN << [channel |-> outputChannel, method |-> "dispose", text |-> <<>>] >>
                    ELSE <<>>
  /\ last' = Call("dispose", FALSE, FALSE,
                  [watcher |-> configWatcher, channel |-> outputChannel])
  /\ consoleLines' = <<>>
  /\ UNCHANGED <<vscodeAvailable, reading, peer, settings, subscriptions, constructed, name, level,
                 outputChannel, context>>

\* ------------------------------------------------------------------------
\* The host delivers a configuration change to the listeners still registered
\* ------------------------------------------------------------------------
\* One run of the listener enableConfigMonitoring registered: the level it
\* leaves and whether an exception left it.  event.affects is the section
\* the change reports; a malformed event carries no affectsConfiguration.
listener(l, event, conf, current, apiRaises) ==
  IF event.wellFormed /\ event.affects = l.section
    THEN IF apiRaises THEN [level |-> current, threw |-> TRUE]
         ELSE LET stored == conf[<<l.section, l.key>>]
                  logLevelSetting == IF stored.t = "undefined" THEN Str(l.defaultLevel)
                                     ELSE stored
              IN IF logLevelSetting.t = "string"
                   THEN [level |-> fromString(logLevelSetting.s), threw |-> FALSE]
                   ELSE [level |-> current, threw |-> TRUE]
    ELSE [level |-> current, threw |-> FALSE]

\* a delivery in which every listener writes the level of this logger,
\* whichever instance registered it
RECURSIVE fireAnyOwner(_, _, _, _, _)
fireAnyOwner(i, event, conf, acc, apiRaises) ==
  IF i > Len(listeners) THEN acc
  ELSE IF listeners[i].disposals > 0 THEN fireAnyOwner(i + 1, event, conf, acc, apiRaises)
  ELSE LET r == listener(listeners[i], event, conf, acc.level, apiRaises)
       IN fireAnyOwner(i + 1, event, conf,
                       [level |-> r.level, threw |-> acc.threw \/ r.threw], apiRaises)

\* the live listeners this logger registered run in registration order; each
\* is an arrow function, so the level it writes is that of the instance whose
\* enableConfigMonitoring created it (owner 1: this logger, 2: the peer)
RECURSIVE fire(_, _, _, _, _)
fire(i, event, conf, acc, apiRaises) ==
  IF i > Len(listeners) THEN acc
  ELSE IF listeners[i].disposals > 0 \/ listeners[i].owner # 1
    THEN fire(i + 1, event, conf, acc, apiRaises)
  ELSE LET r == listener(listeners[i], event, conf, acc.level, apiRaises)
       IN fire(i + 1, event, conf,
               [level |-> r.level, threw |-> acc.threw \/ r.threw], apiRaises)

\* the same delivery for the listeners the peer registered
RECURSIVE firePeer(_, _, _, _, _)
firePeer(i, event, conf, acc, apiRaises) ==
  IF i > Len(listeners) THEN acc
  ELSE IF listeners[i].disposals > 0 \/ listeners[i].owner # 2
    THEN firePeer(i + 1, event, conf, acc, apiRaises)
  ELSE LET r == listener(listeners[i], event, conf, acc.level, apiRaises)
       IN firePeer(i + 1, event, conf,
                   [level |-> r.level, threw |-> acc.threw \/ r.threw], apiRaises)

onDidChangeConfiguration(section, key, value, wellFormed, apiRaises) ==
  /\ constructed
  /\ IF section \in Sections
       THEN settings' = [settings EXCEPT ![<<section, key>>] = value]
       ELSE value = Undefined /\ settings' = settings
  /\ LET event == [wellFormed |-> wellFormed, affects |-> section]
         r == fire(1, event, settings', [level |-> level, threw |-> FALSE], apiRaises)
         rp == firePeer(1, event, settings', [level |-> peer.level, threw |-> FALSE],
                        apiRaises)
     IN /\ peer' = [peer EXCEPT !.level = rp.level]
        /\ apiRaises => \E i \in 1..Len(listeners) :
                           /\ listeners[i].disposals = 0
                           /\ wellFormed /\ listeners[i].section = section
        /\ level' = r.level
        /\ last' = Call("onDidChangeConfiguration", r.threw \/ rp.threw, apiRaises,
                        [section |-> section, key |-> key, wellFormed |-> wellFormed])
  /\ hostCalls' = <<>>
  /\ consoleLines' = <<>>
  /\ UNCHANGED <<vscodeAvailable, reading, channels, listeners, subscriptions, constructed,
                 name, outputChannel, context, configWatcher, configSection, configKey,
                 defaultLevel>>

Next ==
  \/ \E options \in OptionSets, createRaises \in BOOLEAN :
       constructor(options, createRaises)
  \/ \E sev \in Severities, message \in Messages, args \in ArgLists :
       log(sev, message, args)
  \/ \E lv \in LogLevel : setLevel(lv)
  \/ \E text \in LevelTexts : setLevelFromString(text)
  \/ \E section \in Sections, key \in Keys, d \in FallbackTexts, apiRaises \in BOOLEAN :
       setLevelFromConfig(section, key, d, apiRaises)
  \/ \E section \in Sections, key \in Keys, d \in WatchFallbacks,
        apiRaises \in BOOLEAN, registerRaises \in BOOLEAN :
       enableConfigMonitoring(section, key, d, apiRaises, registerRaises)
  \/ disableConfigMonitoring
  \/ show
  \/ dispose
  \/ \E section \in EventSections, key \in Keys, value \in SettingValues,
        wellFormed \in BOOLEAN, apiRaises \in BOOLEAN :
       onDidChangeConfiguration(section, key, value, wellFormed, apiRaises)

Spec == Init /\ [][Next]_vars

\* ------------------------------------------------------------------------
\* Types
\* ------------------------------------------------------------------------
TypeOK ==
  /\ level \in LogLevel
  /\ outputChannel \in 0..Len(channels)
  /\ configWatcher \in 0..Len(listeners)

\* ------------------------------------------------------------------------
\* Formatting explored on its own: construction, level changes and log calls
\* with a wider choice of auxiliary values
\* ------------------------------------------------------------------------
MaxFormatArgs == 2
FormatArgValues == { Ref(1), Ref(2), Ref(4), Num(2), Str(<<>>), Null }
FormatArgLists == SeqsUpTo(FormatArgValues, MaxFormatArgs)

NextFormat ==
  \/ \E options \in OptionSets, createRaises \in BOOLEAN :
       constructor(options, createRaises)
  \/ \E lv \in {Off, Info} : setLevel(lv)
  \/ \E sev \in {Error}, message \in Messages, args \in FormatArgLists :
       log(sev, message, args)
  \/ \E sev \in {Error, Info}, message \in PlainMessages : log(sev, message, <<>>)

SpecFormat == Init /\ [][NextFormat]_vars

\* ------------------------------------------------------------------------
\* Level parsing explored on its own: construction with every kind of level
\* option, and setLevelFromString over named texts and over all short texts
\* of a small alphabet
\* ------------------------------------------------------------------------
MaxTextLen == 4
ParseAlphabet == { "O", "f", " " }
NamedTexts ==
  { <<>>, TextERROR, <<" ", "e", "r", "r", "o", "r", " ">>, <<"E", "r", "r", "o", "r">>,
    <<"W", "a", "R", "n">>, <<"I", "N", "F", "O">>, <<"\t", "d", "e", "b", "u", "g", "\n">>,
    <<"w", "a", "r", "n", "i", "n", "g">>, <<"T", "R", "A", "C", "E">>,
    <<"i", "n", "v", "a", "l", "i", "d">>, <<"e", "r", " ", "r", "o", "r">> }
ParseTexts == NamedTexts \cup SeqsUpTo(ParseAlphabet, MaxTextLen)
LevelOptions ==
  { Undefined } \cup { Num(s) : s \in LogLevel }
    \cup { Str(t) : t \in { <<"w", "a", "r", "n", "i", "n", "g">>, <<"d", "e", "b", "u", "g">>,
                            <<"v", "e", "r", "b", "o", "s", "e">>, <<" ", "O", "f", "f">> } }
ParseOptionSets == { Options(Str(TextTest), l, Bool(FALSE), Undefined) : l \in LevelOptions }

\* a call of LogLevelUtils.getValidLevels(): a static method, it needs no logger
callGetValidLevels ==
  /\ last' = Call("getValidLevels", FALSE, FALSE, [result |-> getValidLevels])
  /\ hostCalls' = <<>>
  /\ consoleLines' = <<>>
  /\ UNCHANGED hostVars
  /\ UNCHANGED loggerVars

NextParse ==
  \/ \E options \in ParseOptionSets \cup OptionSets, createRaises \in BOOLEAN :
       constructor(options, createRaises)
  \/ \E text \in ParseTexts : setLevelFromString(text)
  \/ \E s \in LogLevel : setLevelFromString(toString(s))
  \/ callGetValidLevels

SpecParse == Init /\ [][NextParse]_vars

\* ------------------------------------------------------------------------
\* Level setting explored on its own: the two setters, the log calls that
\* follow them, and a watcher to hold
\* ------------------------------------------------------------------------
NextLevel ==
  \/ \E options \in OptionSets, createRaises \in BOOLEAN :
       constructor(options, createRaises)
  \/ \E lv \in LogLevel : setLevel(lv)
  \/ \E text \in LevelTexts : setLevelFromString(text)
  \/ \E sev \in Severities, message \in Messages, args \in ArgLists :
       log(sev, message, args)
  \/ \E section \in Sections, key \in Keys, d \in WatchFallbacks :
       configWatcher = 0 /\ enableConfigMonitoring(section, key, d, FALSE, FALSE)

SpecLevel == Init /\ [][NextLevel]_vars

\* ------------------------------------------------------------------------
\* ensureOutputChannel (logger.ts 53-68) and the life of the sink handle
\* ------------------------------------------------------------------------
\* eval('import') at logger.ts:61 is evaluated before the call it is the callee
\* of and before the await: the script text "import" is not an expression
\* (the keyword needs "(...)" or ".meta"), so eval raises a SyntaxError inside
\* the try block on every call
evalImportRaises == TRUE

\* an ensureOutputChannel whose import succeeds and that has no
\* already-initialized check: every call creates a channel and takes it
ensureOutputChannelRebinding ==
  /\ constructed
  /\ Len(channels) < 2
  /\ IF isVSCodeEnvironment
       THEN /\ channels' = Append(channels, [name |-> name, disposals |-> 0])
            /\ outputChannel' = Len(channels) + 1
       ELSE UNCHANGED <<channels, outputChannel>>
  /\ last' = Call("ensureOutputChannel", FALSE, FALSE, NoInput)
  /\ hostCalls' = <<>>
  /\ consoleLines' = <<>>
  /\ UNCHANGED <<vscodeAvailable, reading, peer, settings, listeners, subscriptions, constructed,
                 name, level, context, configWatcher, configSection, configKey,
                 defaultLevel>>

\* an ensureOutputChannel whose import succeeds
ensureOutputChannelImporting ==
  /\ constructed
  /\ IF outputChannel = 0 /\ isVSCodeEnvironment
       THEN /\ channels' = Append(channels, [name |-> name, disposals |-> 0])
            /\ outputChannel' = Len(channels) + 1
       ELSE UNCHANGED <<channels, outputChannel>>
  /\ last' = Call("ensureOutputChannel", FALSE, FALSE, NoInput)
  /\ hostCalls' = <<>>
  /\ consoleLines' = <<>>
  /\ UNCHANGED <<vscodeAvailable, reading, peer, settings, listeners, subscriptions, constructed,
                 name, level, context, configWatcher, configSection, configKey,
                 defaultLevel>>

\* await logger.ensureOutputChannel(): returns at once when a channel is held;
\* otherwise, inside the host, the try block runs up to the failing
\* eval('import') and the catch swallows the error, so the statement that
\* creates the channel is reached only if the import does not raise
ensureOutputChannel ==
  /\ constructed
  /\ IF outputChannel = 0 /\ isVSCodeEnvironment /\ ~evalImportRaises
       THEN /\ channels' = Append(channels, [name |-> name, disposals |-> 0])
            /\ outputChannel' = Len(channels) + 1
       ELSE UNCHANGED <<channels, outputChannel>>
  /\ last' = Call("ensureOutputChannel", FALSE,
                  outputChannel = 0 /\ isVSCodeEnvironment /\ evalImportRaises, NoInput)
  /\ hostCalls' = <<>>
  /\ consoleLines' = <<>>
  /\ UNCHANGED <<vscodeAvailable, reading, peer, settings, listeners, subscriptions, constructed,
                 name, level, context, configWatcher, configSection, configKey,
                 defaultLevel>>

SinkOptionSets ==
  { Options(Undefined, Undefined, Undefined, Undefined),
    Options(Str(TextTest), Undefined, Bool(FALSE), Undefined) }

NextSink ==
  \/ \E options \in SinkOptionSets, createRaises \in BOOLEAN :
       constructor(options, createRaises)
  \/ ensureOutputChannel
  \/ \E sev \in {Error, Debug}, message \in Messages : log(sev, message, <<>>)
  \/ \E lv \in {Off, Trace} : setLevel(lv)
  \/ \E section \in Sections, key \in Keys, d \in WatchFallbacks :
       configWatcher = 0 /\ enableConfigMonitoring(section, key, d, FALSE, FALSE)
  \/ show
  \/ dispose

SpecSink == Init /\ [][NextSink]_vars

\* ------------------------------------------------------------------------
\* Two Logger instances in one extension host: this logger and a peer made by
\* the same class.  They share the host (settings, channels, listeners) and
\* nothing else: every field of Logger is an instance field (logger.ts 9-17)
\* ------------------------------------------------------------------------
TextPeer == <<"P", "e", "e", "r">>

\* const peer = new Logger({name: 'Peer'}), or createLogger({name: 'Peer'})
peerConstructor(createRaises) ==
  /\ ~peer.constructed
  /\ createRaises => isVSCodeEnvironment
  /\ IF isVSCodeEnvironment /\ ~createRaises
       THEN /\ channels' = Append(channels, [name |-> TextPeer, disposals |-> 0])
            /\ peer' = [peer EXCEPT !.constructed = TRUE,
                                    !.outputChannel = Len(channels) + 1]
       ELSE /\ channels' = channels
            /\ peer' = [peer EXCEPT !.constructed = TRUE]
  /\ last' = Call("peer.constructor", FALSE, createRaises, NoInput)
  /\ hostCalls' = <<>>
  /\ consoleLines' = <<>>
  /\ UNCHANGED <<vscodeAvailable, reading, settings, listeners, subscriptions>>
  /\ UNCHANGED loggerVars

\* peer.setLevel(lv)
peerSetLevel(lv) ==
  /\ peer.constructed
  /\ peer' = [peer EXCEPT !.level = lv]
  /\ last' = Call("peer.setLevel", FALSE, FALSE, [lv |-> lv])
  /\ hostCalls' = <<>>
  /\ consoleLines' = <<>>
  /\ UNCHANGED <<vscodeAvailable, reading, settings, channels, listeners, subscriptions>>
  /\ UNCHANGED loggerVars

\* peer.enableConfigMonitoring(section, key, defaultValue), the host calls
\* succeeding
peerEnableConfigMonitoring(section, key, defaultValue) ==
  /\ peer.constructed
  /\ peer.configWatcher = 0
  /\ IF isVSCodeEnvironment
       THEN /\ Len(listeners) < MaxWatchers
            /\ listeners' = Append(listeners,
                                   [section |-> section, key |-> key,
                                    defaultLevel |-> defaultValue, disposals |-> 0,
                                    owner |-> 2])
            /\ peer' = [peer EXCEPT
                          !.level = levelFromConfig(section, key, defaultValue, FALSE),
                          !.configWatcher = Len(listeners) + 1]
       ELSE /\ listeners' = listeners
            /\ peer' = [peer EXCEPT
                          !.level = levelFromConfig(section, key, defaultValue, FALSE)]
  /\ last' = Call("peer.enableConfigMonitoring", FALSE, FALSE,
                  [section |-> section, key |-> key, defaultLevel |-> defaultValue])
  /\ hostCalls' = <<>>
  /\ consoleLines' = <<>>
  /\ UNCHANGED <<vscodeAvailable, reading, settings, channels, subscriptions>>
  /\ UNCHANGED loggerVars

TwoOptionSets == { Options(Str(TextTest), Str(<<"w", "a", "r", "n">>), Undefined, Ref(0)) }

NextTwo ==
  \/ \E options \in TwoOptionSets, createRaises \in BOOLEAN :
       constructor(options, createRaises)
  \/ \E createRaises \in BOOLEAN : peerConstructor(createRaises)
  \/ \E lv \in {Trace} : peerSetLevel(lv)
  \/ \E section \in Sections, key \in Keys, d \in WatchFallbacks :
       peerEnableConfigMonitoring(section, key, d)
  \/ \E lv \in {Off} : setLevel(lv)
  \/ \E section \in Sections, key \in Keys, d \in WatchFallbacks :
       setLevelFromConfig(section, key, d, FALSE)
  \/ \E section \in Sections, key \in Keys, d \in WatchFallbacks :
       enableConfigMonitoring(section, key, d, FALSE, FALSE)
  \/ disableConfigMonitoring
  \/ dispose
  \/ \E section \in EventSections, key \in Keys,
        value \in { Undefined, Str(TextDebugPadded) } :
       onDidChangeConfiguration(section, key, value, TRUE, FALSE)

SpecTwo == Init /\ [][NextTwo]_vars

\* ------------------------------------------------------------------------
\* Persisted-log retrieval (logger.ts 269-345): getLogContents and
\* getLogContentsForChannel, each call split at its two awaits
\* ------------------------------------------------------------------------
MaxReads == 1          \* calls suspended on host file I/O at one time

ErrContextRequired ==
  <<"E", "x", "t", "e", "n", "s", "i", "o", "n", " ", "c", "o", "n", "t", "e", "x",
    "t", " ", "w", "i", "t", "h", " ", "l", "o", "g", "U", "r", "i", " ", "i", "s",
    " ", "r", "e", "q", "u", "i", "r", "e", "d", ".", " ", "P", "a", "s", "s", " ",
    "c", "o", "n", "t", "e", "x", "t", " ", "t", "o", " ", "L", "o", "g", "g", "e",
    "r", " ", "c", "o", "n", "s", "t", "r", "u", "c", "t", "o", "r", ".">>
ErrHostUnavailable ==
  <<"V", "S", " ", "C", "o", "d", "e", " ", "e", "n", "v", "i", "r", "o", "n", "m",
    "e", "n", "t", " ", "n", "o", "t", " ", "a", "v", "a", "i", "l", "a", "b", "l",
    "e">>
ErrNoLogUri ==
  <<"E", "x", "t", "e", "n", "s", "i", "o", "n", " ", "c", "o", "n", "t", "e", "x",
    "t", " ", "w", "i", "t", "h", " ", "l", "o", "g", "U", "r", "i", " ", "i", "s",
    " ", "r", "e", "q", "u", "i", "r", "e", "d", " ", "b", "u", "t", " ", "n", "o",
    "t", " ", "a", "v", "a", "i", "l", "a", "b", "l", "e">>
ErrNotAFile ==
  <<"L", "o", "g", " ", "f", "i", "l", "e", " ", "p", "a", "t", "h", " ", "e", "x",
    "i", "s", "t", "s", " ", "b", "u", "t", " ", "i", "s", " ", "n", "o", "t", " ",
    "a", " ", "f", "i", "l", "e">>
PrefixFailedRead ==
  <<"F", "a", "i", "l", "e", "d", " ", "t", "o", " ", "r", "e", "a", "d", " ", "l",
    "o", "g", " ", "f", "i", "l", "e", ":", " ">>
PrefixApiError ==
  <<"V", "S", " ", "C", "o", "d", "e", " ", "A", "P", "I", " ", "e", "r", "r", "o",
    "r", ":", " ">>
UnknownFileError ==
  <<"U", "n", "k", "n", "o", "w", "n", " ", "f", "i", "l", "e", " ", "e", "r", "r",
    "o", "r">>
UnknownError ==
  <<"U", "n", "k", "n", "o", "w", "n", " ", "e", "r", "r", "o", "r">>

\* values a host call can throw: an Error with a message, or something else
Faults == { [isError |-> TRUE, message |-> <<"E", "B", "U", "S", "Y">>],
            [isError |-> FALSE, message |-> <<>>] }
\* error instanceof Error ? error.message : <unknown>
messageOf(fault, unknown) == IF fault.isError THEN fault.message ELSE unknown

\* an ExtensionContext whose logUri is undefined; Ref(0) is one that has it
BareContext == Ref(5)
ReadContexts == { Undefined, BareContext, Ref(0) }
logUri(ctx) == IF ctx = Ref(0) THEN Str(<<"/", "l", "o", "g", "s">>) ELSE Undefined
FileContents == { <<>>, <<"l", "i", "n", "e">> }
StatOutcomes == { "file", "directory", "raises" }

\* LogContentsResult (types.ts): fields left out are Undefined
Failure(error, filePath) ==
  [success |-> FALSE, contents |-> Undefined, error |-> Str(error), filePath |-> filePath]
Success(contents, filePath) ==
  [success |-> TRUE, contents |-> Str(contents), error |-> Undefined, filePath |-> filePath]
NoResult ==
  [success |-> FALSE, contents |-> Undefined, error |-> Undefined, filePath |-> Undefined]

isVSCodeEnvironmentStatic == vscodeAvailable

\* a prologue that looks at the context before it looks at the host
beforeStatContextFirst(channelName, ctx, joinRaises, fault) ==
  IF ctx = Undefined \/ logUri(ctx) = Undefined
    THEN [done |-> TRUE, case |-> "noContext", path |-> <<>>,
          result |-> Failure(ErrNoLogUri, Undefined)]
  ELSE IF ~isVSCodeEnvironmentStatic
    THEN [done |-> TRUE, case |-> "hostUnavailable", path |-> <<>>,
          result |-> Failure(ErrHostUnavailable, Undefined)]
  ELSE IF joinRaises
    THEN [done |-> TRUE, case |-> "apiError", path |-> <<>>,
          result |-> Failure(PrefixApiError \o messageOf(fault, UnknownError), Undefined)]
  ELSE [done |-> FALSE, case |-> "stat", result |-> NoResult,
        path |-> logUri(ctx).s \o <<"/">> \o channelName \o <<".", "l", "o", "g">>]

\* getLogContentsForChannel up to its first await (logger.ts 289-311);
\* joinRaises: the host API throws before fs.stat is called
beforeStat(channelName, ctx, joinRaises, fault) ==
  IF ~isVSCodeEnvironmentStatic
    THEN [done |-> TRUE, case |-> "hostUnavailable", path |-> <<>>,
          result |-> Failure(ErrHostUnavailable, Undefined)]
  ELSE IF ctx = Undefined \/ logUri(ctx) = Undefined
    THEN [done |-> TRUE, case |-> "noContext", path |-> <<>>,
          result |-> Failure(ErrNoLogUri, Undefined)]
  ELSE IF joinRaises
    THEN [done |-> TRUE, case |-> "apiError", path |-> <<>>,
          result |-> Failure(PrefixApiError \o messageOf(fault, UnknownError), Undefined)]
  ELSE [done |-> FALSE, case |-> "stat", result |-> NoResult,
        path |-> logUri(ctx).s \o <<"/">> \o channelName \o <<".", "l", "o", "g">>]

\* what a retrieval step records: the call, how far it got, and its result
ReadInput(channelName, ctx, case, result) ==
  [channel |-> channelName, context |-> ctx, case |-> case, result |-> result]

\* a retrieval step that puts the level back to Info
readResetsLevel ==
  /\ level' = Info
  /\ UNCHANGED <<constructed, name, outputChannel, context, configWatcher,
                 configSection, configKey, defaultLevel>>

\* no statement of logger.ts 269-345 assigns a field of the logger
readKeepsLogger == UNCHANGED loggerVars

\* the call up to its first await: it resolves at once or suspends on fs.stat
startRead(op, channelName, ctx, joinRaises, fault) ==
  /\ Len(reading) < MaxReads
  /\ LET b == beforeStat(channelName, ctx, joinRaises, fault)
     IN /\ last' = Call(op, FALSE, b.case = "apiError",
                        ReadInput(channelName, ctx, b.case, b.result))
        /\ reading' = IF b.done THEN reading
                       ELSE Append(reading, [channel |-> channelName, context |-> ctx,
                                             stage |-> "stat", path |-> b.path])
  /\ hostCalls' = <<>>
  /\ consoleLines' = <<>>
  /\ UNCHANGED <<vscodeAvailable, settings, channels, listeners, subscriptions, peer>>
  /\ readKeepsLogger

\* Logger.getLogContentsForChannel(channelName, context)
getLogContentsForChannel(channelName, ctx, joinRaises, fault) ==
  startRead("getLogContentsForChannel", channelName, ctx, joinRaises, fault)

\* a getLogContents without the check of this.context
getLogContentsUnchecked(joinRaises, fault) ==
  /\ constructed
  /\ startRead("getLogContents", name, context, joinRaises, fault)

\* logger.getLogContents()
getLogContents(joinRaises, fault) ==
  /\ constructed
  /\ IF context = Undefined
       THEN /\ last' = Call("getLogContents", FALSE, FALSE,
                            ReadInput(name, context, "noContextHandle",
                                      Failure(ErrContextRequired, Undefined)))
            /\ hostCalls' = <<>>
            /\ consoleLines' = <<>>
            /\ UNCHANGED hostVars
            /\ readKeepsLogger
       ELSE startRead("getLogContents", name, context, joinRaises, fault)

WithoutRead(i) == SubSeq(reading, 1, i - 1) \o SubSeq(reading, i + 1, Len(reading))

\* await vscode.workspace.fs.stat(logFilePath) settles for the i-th call; the
\* awaits are in getLogContentsForChannel, to which getLogContents delegates
statSettles(i, outcome, fault) ==
  /\ i \in 1..Len(reading)
  /\ reading[i].stage = "stat"
  /\ LET r == reading[i]
         finish(case, result) ==
           /\ last' = Call("getLogContentsForChannel", FALSE, case = "ioError",
                           ReadInput(r.channel, r.context, case, result))
           /\ reading' = WithoutRead(i)
     IN CASE outcome = "file" ->
               /\ last' = Call("getLogContentsForChannel", FALSE, FALSE,
                               ReadInput(r.channel, r.context, "readFile", NoResult))
               /\ reading' = [reading EXCEPT ![i].stage = "readFile"]
          [] outcome = "directory" ->
               finish("notAFile", Failure(ErrNotAFile, Str(r.path)))
          [] OTHER ->
               finish("ioError",
                      Failure(PrefixFailedRead \o messageOf(fault, UnknownFileError),
                              Str(r.path)))
  /\ hostCalls' = <<>>
  /\ consoleLines' = <<>>
  /\ UNCHANGED <<vscodeAvailable, settings, channels, listeners, subscriptions, peer>>
  /\ readKeepsLogger

\* await vscode.workspace.fs.readFile(logFilePath) settles for the i-th call
readFileSettles(i, raises, contents, fault) ==
  /\ i \in 1..Len(reading)
  /\ reading[i].stage = "readFile"
  /\ LET r == reading[i]
     IN /\ last' = IF raises
                     THEN Call("getLogContentsForChannel", FALSE, TRUE,
                               ReadInput(r.channel, r.context, "ioError",
                                 Failure(PrefixFailedRead
                                           \o messageOf(fault, UnknownFileError),
                                         Str(r.path))))
                     ELSE Call("getLogContentsForChannel", FALSE, FALSE,
                               ReadInput(r.channel, r.context, "ok",
                                         Success(contents, Str(r.path))))
        /\ reading' = WithoutRead(i)
  /\ hostCalls' = <<>>
  /\ consoleLines' = <<>>
  /\ UNCHANGED <<vscodeAvailable, settings, channels, listeners, subscriptions, peer>>
  /\ readKeepsLogger

ReadOptionSets ==
  { Options(Str(TextTest), Str(<<"w", "a", "r", "n">>), Undefined, Undefined),
    Options(Undefined, Undefined, Bool(FALSE), Ref(0)),
    Options(Str(TextTest), Num(Debug), Undefined, BareContext) }

NextRead ==
  \/ \E options \in ReadOptionSets, createRaises \in BOOLEAN :
       constructor(options, createRaises)
  \/ \E joinRaises \in BOOLEAN, fault \in Faults : getLogContents(joinRaises, fault)
  \/ \E ctx \in ReadContexts, joinRaises \in BOOLEAN, fault \in Faults :
       getLogContentsForChannel(TextTest, ctx, joinRaises, fault)
  \/ \E i \in 1..MaxReads, outcome \in StatOutcomes, fault \in Faults :
       statSettles(i, outcome, fault)
  \/ \E i \in 1..MaxReads, raises \in BOOLEAN, contents \in FileContents, fault \in Faults :
       readFileSettles(i, raises, contents, fault)
  \/ \E lv \in {Off, Trace} : setLevel(lv)
  \/ \E section \in Sections, key \in Keys, d \in WatchFallbacks :
       configWatcher = 0 /\ enableConfigMonitoring(section, key, d, FALSE, FALSE)
  \/ dispose

SpecRead == Init /\ [][NextRead]_vars

\* ------------------------------------------------------------------------
\* Properties
\* ------------------------------------------------------------------------
\* the lines the last operation delivered, to either destination
Emitted == Len(hostCalls) + Len(consoleLines)
LiveListeners == { i \in 1..Len(listeners) : listeners[i].disposals = 0 }

\* C1: a log call at severity s under current level L emits a line if and
\* only if L is not Off and rank(s) <= rank(L); otherwise nothing is written.
C1_EmitsIffLevelAllows ==
  last.op = "log" =>
    /\ Emitted > 0 <=> (level # Off /\ last.in.sev <= level)
    /\ ~(level # Off /\ last.in.sev <= level) => Emitted = 0

\* C2: no logging call throws, whatever the logger state, the message and the
\* auxiliary values, self-referencing structures included.
C2_LogNeverThrows == last.op = "log" => ~last.threw

\* C3: construction never fails; it yields a logger with a name and one of the
\* six levels, and when the host is absent or the sink creation raises the
\* logger is left without a sink, so that what it logs goes to the console.
C3_ConstructionNeverFails ==
  /\ last.op = "constructor" =>
       /\ ~last.threw
       /\ constructed
       /\ name # <<>>
       /\ level \in LogLevel
       /\ (last.fault \/ ~vscodeAvailable) => outputChannel = 0
  /\ (last.op = "log" /\ outputChannel = 0) =>
       /\ hostCalls = <<>>
       /\ (~last.threw /\ level # Off /\ last.in.sev <= level) => Len(consoleLines) = 1

C3_Witness ==
  /\ last.op = "constructor" /\ last.fault /\ constructed /\ outputChannel = 0

\* C4: every log call that passes the level filter is delivered to exactly one
\* destination, the host sink if the logger holds one and the console
\* otherwise; never to both and never to neither.
C4_ExactlyOneDestination ==
  (last.op = "log" /\ level # Off /\ last.in.sev <= level) =>
    IF outputChannel # 0
      THEN Len(hostCalls) = 1 /\ hostCalls[1].channel = outputChannel /\ consoleLines = <<>>
      ELSE Len(consoleLines) = 1 /\ hostCalls = <<>>

\* C5: the listeners one logger has registered and not disposed number at
\* most one in every reachable state, also after monitoring is enabled twice.
C5_AtMostOneLiveWatcher == Cardinality(LiveListeners) <= 1

\* C6: the host sink is released exactly once over the logger's lifetime,
\* however many times dispose() is called.
C6_SinkReleasedOnce ==
  /\ \A c \in 1..Len(channels) : channels[c].disposals <= 1
  /\ (last.op = "dispose" /\ outputChannel # 0) => channels[outputChannel].disposals = 1

C8_DisableIdempotent ==
  [][ last'.op = "disableConfigMonitoring" =>
        /\ ~last'.threw
        /\ configWatcher' = 0
        /\ configSection' = Undefined /\ configKey' = Undefined
        /\ defaultLevel' = Undefined
        /\ level' = level /\ outputChannel' = outputChannel /\ channels' = channels
        /\ settings' = settings /\ subscriptions' = subscriptions
        /\ IF configWatcher = 0 THEN listeners' = listeners
           ELSE /\ listeners[configWatcher].disposals = 0
                /\ listeners' = [listeners EXCEPT ![configWatcher].disposals = 1] ]_vars

C8_Witness ==
  /\ last.op = "disableConfigMonitoring" /\ last.in.watcher # 0
  /\ configWatcher = 0 /\ listeners[last.in.watcher].disposals = 1

\* C9: setLevelFromConfig never throws and leaves the level parse(v), v being
\* the configured text of section.key when the host is available and the read
\* succeeds, and the fallback text when the setting is absent, the host is
\* unavailable or the host configuration call raises.
C9_LevelFromConfig ==
  last.op = "setLevelFromConfig" =>
    LET stored == settings[<<last.in.section, last.in.key>>]
        readable == vscodeAvailable /\ ~last.fault
    IN /\ ~last.threw
       /\ (readable /\ stored.t = "string") => level = fromString(stored.s)
       /\ (~readable \/ stored.t = "undefined") => level = fromString(last.in.defaultLevel)

C9_Witness ==
  /\ last.op = "setLevelFromConfig" /\ last.fault
  /\ last.in.defaultLevel = TextERROR /\ level = Error

\* the rendering of one auxiliary value: objects and arrays as JSON text,
\* scalars stringified
RenderedAux(v) == IF v.t = "ref" THEN JSONstringify(v, {}).s ELSE String(v)

RECURSIVE SpaceThenEach(_)
SpaceThenEach(args) ==
  IF args = <<>> THEN <<>>
  ELSE <<" ">> \o RenderedAux(Head(args)) \o SpaceThenEach(Tail(args))

RECURSIVE JoinedAux(_)
JoinedAux(args) ==
  IF args = <<>> THEN <<>>
  ELSE IF Len(args) = 1 THEN RenderedAux(args[1])
  ELSE RenderedAux(args[1]) \o <<" ">> \o JoinedAux(Tail(args))

\* the text of the line the last log call delivered
EmittedText ==
  IF hostCalls # <<>> THEN hostCalls[1].text
  ELSE SubSeq(consoleLines[1], Len(name) + 4, Len(consoleLines[1]))

TextExample == <<"M", " ", "{", "\"", "a", "\"", ":", "1", "}", " ", "2">>

\* C10 as stated: the emitted text is the message, then for every auxiliary
\* value a single space and its rendering; with no auxiliaries it is the message.
C10_MessageThenSpacedArgs ==
  (last.op = "log" /\ Emitted > 0) =>
    EmittedText = last.in.message \o SpaceThenEach(last.in.args)

\* C10 as amended: the renderings are joined by single spaces; when that
\* joined text is empty the emitted text is the message alone, otherwise it is
\* the message, one space, and the joined text.
C10_MessageThenJoinedArgs ==
  (last.op = "log" /\ Emitted > 0) =>
    /\ EmittedText = IF JoinedAux(last.in.args) = <<>> THEN last.in.message
                     ELSE last.in.message \o <<" ">> \o JoinedAux(last.in.args)
    /\ last.in.args = <<>> => EmittedText = last.in.message
    /\ (last.in.message = <<"M">> /\ last.in.args = <<Ref(1), Num(2)>>) =>
         EmittedText = TextExample

C10_Witness ==
  /\ last.op = "log" /\ Emitted > 0
  /\ last.in.message = <<"M">> /\ last.in.args = <<Ref(1), Num(2)>>
  /\ EmittedText = TextExample

\* the formatted text of a log call, from its message and auxiliary values
FormattedText(message, args) ==
  IF JoinedAux(args) = <<>> THEN message ELSE message \o <<" ">> \o JoinedAux(args)

TextTestY == <<"[", "T", "e", "s", "t", "]", " ", "y">>

\* C11: a logger without a host sink writes every emitted line to the console
\* as "[<name>] " followed by the formatted text, and to the console only; the
\* name is "Extension" when none was given.  A logger named "Test" at level
\* Warn emits nothing for info("x") and "[Test] y" for error("y").
C11_ConsoleLinePrefixed ==
  /\ (last.op = "constructor" /\ last.in.name = Undefined) => name = TextExtension
  /\ (last.op = "constructor" /\ last.in.name = Str(TextTest)) => name = TextTest
  /\ (last.op = "log" /\ outputChannel = 0 /\ Emitted > 0) =>
       /\ hostCalls = <<>>
       /\ consoleLines = << <<"[">> \o name \o <<"]", " ">>
                               \o FormattedText(last.in.message, last.in.args) >>
  /\ (last.op = "log" /\ outputChannel = 0 /\ name = TextTest /\ level = Warn
        /\ last.in.args = <<>>) =>
       /\ (last.in.sev = Info /\ last.in.message = <<"x">>) => Emitted = 0
       /\ (last.in.sev = Error /\ last.in.message = <<"y">>) =>
            consoleLines = << TextTestY >>

C11_Witness ==
  /\ last.op = "log" /\ outputChannel = 0 /\ name = TextTest /\ level = Warn
  /\ last.in.sev = Error /\ last.in.message = <<"y">> /\ last.in.args = <<>>
  /\ consoleLines = << TextTestY >>
\* the host sink's method for each severity rank 1..5
SinkMethodNames == <<"error", "warn", "info", "debug", "trace">>

\* C12: a logger that holds a host sink answers a call at severity s that
\* passes the level filter with exactly one invocation, of the sink method
\* named after s, with the formatted text and nothing added; the console is
\* not written.
C12_SinkMethodOnce ==
  (last.op = "log" /\ outputChannel # 0 /\ level # Off /\ last.in.sev <= level) =>
    /\ hostCalls = << [channel |-> outputChannel,
                       method |-> SinkMethodNames[last.in.sev],
                       text |-> FormattedText(last.in.message, last.in.args)] >>
    /\ consoleLines = <<>>

\* the same for the calls that return normally
C12_SinkMethodOnceUnlessThrown ==
  (last.op = "log" /\ outputChannel # 0 /\ level # Off /\ last.in.sev <= level
     /\ ~last.threw) =>
    /\ hostCalls = << [channel |-> outputChannel,
                       method |-> SinkMethodNames[last.in.sev],
                       text |-> FormattedText(last.in.message, last.in.args)] >>
    /\ consoleLines = <<>>
\* the last operation was a log call that returned without writing anything
Suppressed == last.op = "log" /\ ~last.threw /\ Emitted = 0

\* C18: whatever operations set the level, an error() call is suppressed if
\* and only if the level is Off, and at level Off a call of any of the five
\* severities is suppressed.
C18_OnlyOffSuppressesError ==
  last.op = "log" =>
    /\ last.in.sev = Error => (Suppressed <=> level = Off)
    /\ level = Off => Suppressed

C18_Witness ==
  /\ last.op = "log" /\ last.in.sev = Error /\ level = Off /\ Suppressed

\* C19: in every reachable state the current level is one of the six ranks
\* Off(0) .. Trace(5).
C19_LevelIsARank == level \in {0, 1, 2, 3, 4, 5}

C19_Witness ==
  /\ last.op = "onDidChangeConfiguration" /\ level = Debug /\ configWatcher # 0
\* the table of level names, as pairs of name and rank
ReferenceTable ==
  { << <<"o", "f", "f">>, 0 >>, << <<"e", "r", "r", "o", "r">>, 1 >>,
    << <<"w", "a", "r", "n">>, 2 >>, << <<"w", "a", "r", "n", "i", "n", "g">>, 2 >>,
    << <<"i", "n", "f", "o">>, 3 >>, << <<"d", "e", "b", "u", "g">>, 4 >>,
    << <<"t", "r", "a", "c", "e">>, 5 >> }
TableLookup(t) ==
  IF \E p \in ReferenceTable : p[1] = t
    THEN (CHOOSE p \in ReferenceTable : p[1] = t)[2]
    ELSE 3
\* a text with its leading and trailing blanks removed, letters unchanged
RECURSIVE Stripped(_)
Stripped(t) ==
  IF t = <<>> THEN t
  ELSE IF Head(t) \in WhiteSpace THEN Stripped(Tail(t))
  ELSE IF t[Len(t)] \in WhiteSpace THEN Stripped(SubSeq(t, 1, Len(t) - 1))
  ELSE t

\* C13: fromString is the reference table applied to the lowercased, trimmed
\* text, with Info for every text outside the table (the empty text too); it
\* returns for every text, and "ERROR", " error " and "Error" all parse to
\* Error.
C13_ParseIsTableOfNormalised ==
  last.op = "setLevelFromString" =>
    /\ ~last.threw
    /\ level = TableLookup(toLowerCase(Stripped(last.in.text)))
    /\ last.in.text = <<>> => level = Info
    /\ last.in.text \in { TextERROR, <<" ", "e", "r", "r", "o", "r", " ">>,
                          <<"E", "r", "r", "o", "r">> } => level = Error

C13_Witness ==
  /\ last.op = "setLevelFromString"
  /\ last.in.text = <<" ", "e", "r", "r", "o", "r", " ">>
  /\ level = Error

\* C14: parsing the text that toString gives for a severity yields that
\* severity again, for each of the six severities.
C14_RoundTrip ==
  \A s \in LogLevel :
    (last.op = "setLevelFromString" /\ last.in.text = toString(s)) => level = s

C14_Witness ==
  /\ last.op = "setLevelFromString" /\ last.in.text = toString(Trace) /\ level = Trace

\* C20: the level after construction is Info when the level option is
\* omitted, the given severity when a severity is passed, and the parsed text
\* when a text is passed: "warning" gives Warn, an unknown text gives Info.
C20_InitialLevel ==
  last.op = "constructor" =>
    /\ last.in.level = Undefined => level = Info
    /\ last.in.level.t = "number" => level = last.in.level.n
    /\ last.in.level.t = "string" =>
         /\ level = fromString(last.in.level.s)
         /\ level = TableLookup(toLowerCase(Stripped(last.in.level.s)))
    /\ last.in.level = Str(<<"w", "a", "r", "n", "i", "n", "g">>) => level = Warn
    /\ last.in.level = Str(<<"v", "e", "r", "b", "o", "s", "e">>) => level = Info

C20_Witness ==
  /\ last.op = "constructor"
  /\ last.in.level = Str(<<"w", "a", "r", "n", "i", "n", "g">>) /\ level = Warn
\* the operations that retrieve the persisted log
ReadOps == { "getLogContents", "getLogContentsForChannel" }
\* the last step resolved a retrieval (it did not suspend it)
Resolved == last.op \in ReadOps /\ last.in.case \notin { "stat", "readFile" }
HasPrefix(t, pre) == Len(t) >= Len(pre) /\ SubSeq(t, 1, Len(pre)) = pre

\* C15: getLogContents() of a logger built without a context resolves, to a
\* result with success false, a descriptive error text and neither contents
\* nor filePath, whether or not the host is there and whatever the level, the
\* sink and the watcher are.
C15_NoContextResolvesFailure ==
  (last.op = "getLogContents" /\ context = Undefined) =>
    /\ ~last.threw
    /\ Resolved
    /\ last.in.result.success = FALSE
    /\ last.in.result.error = Str(ErrContextRequired)
    /\ Len(last.in.result.error.s) > 0
    /\ last.in.result.contents = Undefined
    /\ last.in.result.filePath = Undefined

C15_Witness ==
  /\ last.op = "getLogContents" /\ context = Undefined /\ Resolved
  /\ vscodeAvailable /\ outputChannel # 0 /\ configWatcher # 0 /\ level = Off
  /\ last.in.result.success = FALSE

\* the failure case an error text names
CaseOfError(e) ==
  IF e = ErrHostUnavailable THEN "hostUnavailable"
  ELSE IF e = ErrNoLogUri THEN "noContext"
  ELSE IF e = ErrNotAFile THEN "notAFile"
  ELSE IF HasPrefix(e, PrefixFailedRead) THEN "ioError"
  ELSE IF HasPrefix(e, PrefixApiError) THEN "apiError"
  ELSE "none"

TextLogFile == <<"/", "l", "o", "g", "s", "/", "T", "e", "s", "t", ".", "l", "o", "g">>

\* C16: getLogContentsForChannel never raises.  Each failure (host absent,
\* context or logUri missing, path not a file, stat or read error, other host
\* API error) resolves to success false with an error text that names that
\* case and no other; an absent host is reported before a missing context;
\* filePath is set exactly for the not-a-file and I/O failures and for success.
C16_FailureCasesDistinct ==
  (Resolved /\ last.in.case # "noContextHandle") =>
    LET r == last.in.result
        c == last.in.case
    IN /\ ~last.threw
       /\ r.success <=> c = "ok"
       /\ ~r.success =>
            /\ r.error.t = "string" /\ r.contents = Undefined
            /\ CaseOfError(r.error.s) = c
       /\ r.success => (r.error = Undefined /\ r.contents.t = "string")
       /\ ~vscodeAvailable => c = "hostUnavailable"
       /\ (vscodeAvailable /\ last.in.context \in { Undefined, BareContext }) =>
            c = "noContext"
       /\ r.filePath # Undefined <=> c \in { "notAFile", "ioError", "ok" }
       /\ r.filePath # Undefined => r.filePath.t = "string"

C16_Witness ==
  /\ Resolved /\ last.op = "getLogContentsForChannel" /\ last.in.case = "notAFile"
  /\ last.in.result.success = FALSE
  /\ last.in.result.error = Str(ErrNotAFile)
  /\ last.in.result.filePath = Str(TextLogFile)

\* C17: no step of getLogContents or getLogContentsForChannel, from the call
\* to its resolution and with other logger operations running in between,
\* changes the level, the sink handle, the watcher handle or the remembered
\* section, key and default.
C17_ReadIsPure ==
  [][ last'.op \in ReadOps =>
        /\ level' = level
        /\ outputChannel' = outputChannel
        /\ configWatcher' = configWatcher
        /\ configSection' = configSection
        /\ configKey' = configKey
        /\ defaultLevel' = defaultLevel ]_vars

C17_Witness ==
  /\ Len(reading) > 0 /\ reading[1].stage = "readFile"
  /\ last.op = "setLevel" /\ level = Off /\ configWatcher # 0
\* C21: setLevel(s) and setLevelFromString(t) replace the level at once: the
\* level right after the call is s, respectively the parse of t; a log call
\* that comes next is filtered against that level; and the call changes
\* neither the sink handle nor the watcher handle.
C21_LevelReplacedAtOnce ==
  [][ IF last'.op = "setLevel"
        THEN /\ level' = last'.in.lv
             /\ outputChannel' = outputChannel /\ configWatcher' = configWatcher
      ELSE IF last'.op = "setLevelFromString"
        THEN /\ level' = TableLookup(toLowerCase(Stripped(last'.in.text)))
             /\ outputChannel' = outputChannel /\ configWatcher' = configWatcher
      ELSE IF last'.op = "log" /\ last.op \in { "setLevel", "setLevelFromString" }
        THEN /\ Len(hostCalls') + Len(consoleLines') > 0 =>
                  (level # Off /\ last'.in.sev <= level)
             /\ (level # Off /\ last'.in.sev <= level /\ ~last'.threw) =>
                  Len(hostCalls') + Len(consoleLines') = 1
      ELSE TRUE ]_vars

C21_Witness ==
  /\ last.op = "setLevelFromString" /\ last.in.text = TextDebugPadded /\ level = Debug
  /\ outputChannel # 0 /\ configWatcher # 0

\* C22: getValidLevels() returns the sequence off, error, warn, warning, info,
\* debug, trace whatever the state of any logger; each of its tokens has a
\* case of its own in fromString, and each of the six severities is the parse
\* of at least one token.
C22_ValidLevelsFixed ==
  last.op = "getValidLevels" =>
    LET r == last.in.result
    IN /\ r = << <<"o", "f", "f">>, <<"e", "r", "r", "o", "r">>, <<"w", "a", "r", "n">>,
                  <<"w", "a", "r", "n", "i", "n", "g">>, <<"i", "n", "f", "o">>,
                  <<"d", "e", "b", "u", "g">>, <<"t", "r", "a", "c", "e">> >>
       /\ \A i \in 1..Len(r) : trim(toLowerCase(r[i])) \in switchLabels
       /\ \A i \in 1..Len(r) : fromString(r[i]) = TableLookup(r[i])
       /\ \A sv \in LogLevel : \E i \in 1..Len(r) : fromString(r[i]) = sv

C22_Witness ==
  /\ last.op = "getValidLevels" /\ constructed /\ level = Off
  /\ Len(last.in.result) = 7
\* C24: a failure of the host configuration read inside the change listener
\* is caught: no exception leaves the listener, and the level is left at the
\* parse of the fallback text, as setLevelFromConfig leaves it.
C24_ListenerCatchesReadFailure ==
  (last.op = "onDidChangeConfiguration" /\ last.fault) =>
    /\ ~last.threw
    /\ \E i \in LiveListeners : level = fromString(listeners[i].defaultLevel)

\* C25: once disableConfigMonitoring() or dispose() has returned and the
\* logger holds no watcher, no host configuration-change notification changes
\* the level, whatever enable and disable calls came before.
C25_NoChangeAfterDisable ==
  [][ (constructed /\ configWatcher = 0 /\ last'.op = "onDidChangeConfiguration") =>
        level' = level ]_vars

\* C29: after dispose() the logger holds no sink, and no log or show call
\* invokes a method of a sink that has been released.
C29_ReleasedSinkNotInvoked ==
  /\ last.op = "dispose" => outputChannel = 0
  /\ (last.op \in { "log", "show" } /\ hostCalls # <<>>) =>
       channels[hostCalls[1].channel].disposals = 0
\* the text a watch for its section reads after a change: the stored value of
\* the key, or the fallback when the key is absent
WatchedText(conf) ==
  LET stored == conf[<<configSection.s, configKey.s>>]
  IN IF stored.t = "undefined" THEN defaultLevel.s ELSE stored.s

\* C23: while the logger holds a watch for section S, a change notification
\* that affects S leaves the level at the parse of the host's value of S.key
\* (a text), or of the fallback when the key is absent, whatever the level was
\* before; a notification that does not affect S, or is not a well-formed
\* change event, leaves the level and the rest of the logger unchanged.
C23_NotificationSyncsLevel ==
  [][ (last'.op = "onDidChangeConfiguration" /\ configWatcher # 0) =>
        IF last'.in.wellFormed /\ last'.in.section = configSection.s
          THEN settings'[<<configSection.s, configKey.s>>].t \in { "string", "undefined" }
                 => level' = fromString(WatchedText(settings'))
          ELSE /\ level' = level
               /\ UNCHANGED <<name, outputChannel, context, configWatcher,
                              configSection, configKey, defaultLevel>> ]_vars

\* the same for the notifications during which the host read succeeds
C23_NotificationSyncsLevelUnlessReadFails ==
  [][ (last'.op = "onDidChangeConfiguration" /\ configWatcher # 0 /\ ~last'.fault) =>
        IF last'.in.wellFormed /\ last'.in.section = configSection.s
          THEN settings'[<<configSection.s, configKey.s>>].t \in { "string", "undefined" }
                 => level' = fromString(WatchedText(settings'))
          ELSE /\ level' = level
               /\ UNCHANGED <<name, outputChannel, context, configWatcher,
                              configSection, configKey, defaultLevel>> ]_vars
\* C26: over construction and any number of ensureOutputChannel() calls a
\* logger creates at most one host sink, and a sink handle, once set, is never
\* replaced by another.
C26_SingleSinkBinding ==
  [][ /\ Len(channels') <= 1
      /\ outputChannel # 0 => outputChannel' = outputChannel ]_vars

C26_Witness ==
  /\ last.op = "ensureOutputChannel" /\ vscodeAvailable
  /\ outputChannel = 1 /\ Len(channels) = 1

\* C27: ensureOutputChannel() never rejects, and once it has resolved inside
\* the host the logger holds a sink: a logger without one has acquired it, a
\* logger with one keeps it.
C27_EnsureBinds ==
  (last.op = "ensureOutputChannel" /\ vscodeAvailable) =>
    /\ ~last.threw
    /\ outputChannel # 0

OwnOps ==
  { "constructor", "log", "setLevel", "setLevelFromString", "setLevelFromConfig",
    "enableConfigMonitoring", "disableConfigMonitoring", "show", "dispose",
    "ensureOutputChannel", "getLogContents" }
PeerOps == { "peer.constructor", "peer.setLevel", "peer.enableConfigMonitoring" }
\* some live listener registered by the given instance watches the section
Watches(owner, section) ==
  \E i \in 1..Len(listeners) :
    /\ listeners[i].owner = owner
    /\ listeners[i].disposals = 0
    /\ listeners[i].section = section

\* C30: two Logger instances do not touch each other: an operation on one
\* leaves the level, the sink handle and the watcher handle of the other as
\* they were, and a change notification changes the level of an instance only
\* through a listener that instance registered itself.
C30_InstancesIsolated ==
  [][ /\ last'.op \in OwnOps => peer' = peer
      /\ last'.op \in PeerOps =>
           (level' = level /\ outputChannel' = outputChannel
              /\ configWatcher' = configWatcher)
      /\ last'.op = "onDidChangeConfiguration" =>
           /\ peer'.outputChannel = peer.outputChannel
           /\ peer'.configWatcher = peer.configWatcher
           /\ outputChannel' = outputChannel /\ configWatcher' = configWatcher
           /\ ~Watches(2, last'.in.section) => peer'.level = peer.level
           /\ ~Watches(1, last'.in.section) => level' = level ]_vars

C30_Witness ==
  /\ last.op = "dispose" /\ last.in.channel # 0 /\ last.in.watcher # 0
  /\ peer.constructed /\ peer.level = Trace
  /\ peer.outputChannel # 0 /\ channels[peer.outputChannel].disposals = 0
  /\ peer.configWatcher # 0 /\ listeners[peer.configWatcher].disposals = 0

====
